---- MODULE Spec2Model ----
(***************************************************************************)
(* Model of the training orchestration of                                  *)
(* src/pipelines/mv4-conv-large-imagenet-1k.py: the epoch loop of main(),  *)
(* one optimization step per training batch (autocast forward, scaled      *)
(* backward, the clipping gate, the scaler-gated optimizer update, metric   *)
(* accumulation, scheduler advance), validate(), and the per-epoch metric   *)
(* histories.                                                               *)
(*                                                                          *)
(* Floats are modelled as exact rationals <<numerator, denominator>> in     *)
(* lowest terms; rounding of binary floating point is not modelled.  The   *)
(* model's parameters are abstracted to the number of optimizer updates    *)
(* applied to them.                                                         *)
(***************************************************************************)
EXTENDS Integers, Sequences, FiniteSets, TLC

(* ------------------------------------------------------------------ *)
(* Program constants                                                    *)
(* ------------------------------------------------------------------ *)
NUM_EPOCHS == 36
METRICS_UPDATE_STEP == 1
\* NUM_STEPS // 100
WarmupDivisor == 100
\* outputs.topk(5, 1, True, True)
TopK == 5
\* correct[:1], correct[:5]
Top1Rows == 1
Top5Rows == 5
\* torch.amp.GradScaler(device.type): the defaults of its constructor
InitScale == 65536
GrowthInterval == 2000

(* ------------------------------------------------------------------ *)
(* Bounds of the model                                                  *)
(* ------------------------------------------------------------------ *)
\* number of classes of a score vector (1000 in the program)
NumClasses == 6
\* epochs and evaluation intervals of the small configurations
MaxEpochs == 6
MaxInterval == 3
\* batches per pass and epochs in the step-level configurations
MaxBatches == 2
MaxStepEpochs == 3
\* epochs of the configurations whose warmup spans several epochs
MaxWarmEpochs == 250
\* epochs and entries of a drawn history in the policy configurations
MaxPolicyEpochs == 2
MaxHistory == 2
\* samples per batch in the metric configurations
MaxBatchSize == 2
\* batches per epoch in the full-length (NUM_EPOCHS) configurations
MaxLongBatches == 6

(* ------------------------------------------------------------------ *)
(* Rationals                                                            *)
(* ------------------------------------------------------------------ *)
RECURSIVE GCD(_, _)
GCD(a, b) == IF b = 0 THEN a ELSE GCD(b, a % b)

\* n / d in lowest terms, n >= 0, d > 0
Rat(n, d) == LET g == GCD(n, d) IN <<n \div g, d \div g>>

RatMul(x, y) == Rat(x[1] * y[1], x[2] * y[2])

RatLeq(x, y) == x[1] * y[2] <= y[1] * x[2]

Zero == <<0, 1>>

RECURSIVE Pow10(_)
Pow10(k) == IF k = 0 THEN 1 ELSE 10 * Pow10(k - 1)

\* f"{x:.kf}": x rounded to k decimals (half to even), as the integer x * 10^k
Fmt(x, k) ==
  LET n == x[1] * Pow10(k)
      d == x[2]
      q == n \div d
      r == n % d
  IN  IF 2 * r < d THEN q
      ELSE IF 2 * r > d THEN q + 1
      ELSE IF q % 2 = 0 THEN q ELSE q + 1

RECURSIVE SeqSum(_)
SeqSum(s) == IF s = <<>> THEN 0 ELSE Head(s) + SeqSum(Tail(s))

Min(a, b) == IF a <= b THEN a ELSE b

(* ------------------------------------------------------------------ *)
(* Batches: what train_loader / test_loader and model(images) produce   *)
(* ------------------------------------------------------------------ *)
Classes == 1 .. NumClasses

\* score vectors (one row of outputs): a strict ranking with class 1 first,
\* a strict ranking with class NumClasses first, and a vector whose two
\* best classes tie
Descending == [c \in Classes |-> NumClasses - c]
Ascending == [c \in Classes |-> c]
TiedTop == [c \in Classes |-> IF c <= 2 THEN NumClasses ELSE NumClasses - c]
ScoreVectors == {Descending, Ascending, TiedTop}

Batch(o, l, x) == [outputs |-> o, labels |-> l, loss |-> x]

\* the two batches of the cadence configurations: a top-1 hit and a miss
HitBatch == Batch(<<Descending>>, <<1>>, 1)
MissBatch == Batch(<<Descending>>, <<NumClasses>>, 2)

\* a batch of two samples, the first a top-1 hit, the second outside the top 5
PairBatch == Batch(<<Descending, Ascending>>, <<1, 1>>, 2)

\* samples (score vector, label) at the places the top-k cut decides: the
\* label ranked first, last inside the cut, first outside the cut, tied for
\* the first rank, and ranked first and last where rank and class differ
Samples ==
  <<<<Descending, 1>>, <<Descending, TopK>>, <<Descending, TopK + 1>>,
    <<TiedTop, 1>>, <<Ascending, NumClasses>>, <<Ascending, 1>>>>

\* n copies of sample k; n samples in the order of Samples, from sample k on
Uniform(n, k) == [i \in 1 .. n |-> Samples[k]]
Rotated(n, k) == [i \in 1 .. n |-> Samples[((k + i - 2) % Len(Samples)) + 1]]

\* batches of 1 .. MaxBatchSize samples, uniform and mixed, with two losses
MetricBatches ==
  {Batch([i \in 1 .. Len(b) |-> b[i][1]], [i \in 1 .. Len(b) |-> b[i][2]], x) :
     b \in UNION {{Uniform(n, k), Rotated(n, k)} :
                    n \in 1 .. MaxBatchSize, k \in 1 .. Len(Samples)},
     x \in {1, 3}}

\* the batches a loader can yield, by the name the configuration gives it
Batches(name) ==
  CASE name = "hitmiss" -> {HitBatch, MissBatch}
    [] name = "pair" -> {PairBatch}
    [] name = "metric" -> MetricBatches

(* ------------------------------------------------------------------ *)
(* Top-k and the hit counts                                             *)
(* ------------------------------------------------------------------ *)
\* the orders in which topk(k, largest, sorted) may list the k best classes
\* of one score vector; tied scores may come in either order
RECURSIVE Rankings(_, _, _)
Rankings(scores, remaining, k) ==
  IF k = 0 \/ remaining = {} THEN {<<>>}
  ELSE UNION {{<<m>> \o r : r \in Rankings(scores, remaining \ {m}, k - 1)} :
                m \in {c \in remaining : \A d \in remaining : scores[d] <= scores[c]}}

\* _, pred = outputs.topk(5, 1, True, True): one ranking per sample
\* (the rankings of each score vector, computed once)
RankingsOf == [v \in ScoreVectors |-> Rankings(v, Classes, TopK)]

TopKChoices(outputs) ==
  LET per == [s \in 1 .. Len(outputs) |-> RankingsOf[outputs[s]]]
  IN  {p \in [1 .. Len(outputs) -> UNION {per[s] : s \in 1 .. Len(outputs)}] :
         \A s \in 1 .. Len(outputs) : p[s] \in per[s]}

\* pred = pred.t()
Transpose(p) == [k \in 1 .. TopK |-> [s \in 1 .. Len(p) |-> p[s][k]]]

\* correct = pred.eq(labels.view(1, -1).expand_as(pred)), as 0/1
Correct(predT, labels) ==
  [k \in 1 .. Len(predT) |->
     [s \in 1 .. Len(labels) |-> IF predT[k][s] = labels[s] THEN 1 ELSE 0]]

\* correct[:rows].float().sum()
RowsSum(correct, rows) ==
  LET upto == Min(rows, Len(correct))
      RECURSIVE Sum(_)
      Sum(k) == IF k = 0 THEN 0 ELSE SeqSum(correct[k]) + Sum(k - 1)
  IN  Sum(upto)

\* (mutant: the top-5 slice copied into the top-1 count)
Top1Hits_CopiedSlice(correct) == RowsSum(correct, Top5Rows)

Top1Hits(correct) == RowsSum(correct, Top1Rows)

\* (mutant: the slice correct[1:5] in place of correct[:5])
Top5Hits_WithoutFirst(correct) == RowsSum(correct, Top5Rows) - RowsSum(correct, Top1Rows)

Top5Hits(correct) == RowsSum(correct, Top5Rows)

(* ------------------------------------------------------------------ *)
(* Metric accumulation and finalization                                 *)
(* ------------------------------------------------------------------ *)
NoTotals == [loss |-> 0, samples |-> 0, top1 |-> 0, top5 |-> 0]

\* (mutant: the loss is not weighted by the batch's size)
TrainAccumulate_Unweighted(running, loss, labels, correct) ==
  [loss |-> running.loss + loss,
   samples |-> running.samples + Len(labels),
   top1 |-> running.top1 + Top1Hits(correct),
   top5 |-> running.top5 + Top5Hits(correct)]

\* main: running_loss, running_samples, running_top1_correct, running_top5_correct
TrainAccumulate(running, loss, labels, correct) ==
  [loss |-> running.loss + loss * Len(labels),
   samples |-> running.samples + Len(labels),
   top1 |-> running.top1 + Top1Hits(correct),
   top5 |-> running.top5 + Top5Hits(correct)]

\* (mutant: every batch is weighted by the nominal batch size)
ValAccumulate_Nominal(totals, loss, labels, correct) ==
  [loss |-> totals.loss + loss * MaxBatchSize,
   samples |-> totals.samples + MaxBatchSize,
   top1 |-> totals.top1 + Top1Hits(correct),
   top5 |-> totals.top5 + Top5Hits(correct)]

\* validate: total_loss, total_samples, top1_correct, top5_correct
ValAccumulate(totals, loss, labels, correct) ==
  [loss |-> totals.loss + loss * Len(labels),
   samples |-> totals.samples + Len(labels),
   top1 |-> totals.top1 + Top1Hits(correct),
   top5 |-> totals.top5 + Top5Hits(correct)]

\* what a division by a zero sample count raises
ZeroDivisionError == [raised |-> "ZeroDivisionError"]

Raised(result) == "raised" \in DOMAIN result

\* (mutant: the divisor is floored, max(1, samples))
Finalize_Floored(totals) ==
  LET n == IF totals.samples > 1 THEN totals.samples ELSE 1
  IN  [loss |-> Rat(totals.loss, n),
       top1 |-> Rat(100 * totals.top1, n),
       top5 |-> Rat(100 * totals.top5, n)]

\* avg_loss, top1 percentage, top5 percentage: total / samples, which raises
\* when samples is 0
Finalize(totals) ==
  IF totals.samples = 0
    THEN ZeroDivisionError
    ELSE [loss |-> Rat(totals.loss, totals.samples),
          top1 |-> Rat(100 * totals.top1, totals.samples),
          top5 |-> Rat(100 * totals.top5, totals.samples)]

ZeroRecord == [loss |-> Zero, top1 |-> Zero, top5 |-> Zero]

(* ------------------------------------------------------------------ *)
(* The optimization step: gradients, clipping gate, loss scaler          *)
(* ------------------------------------------------------------------ *)
NoGrad == [present |-> FALSE, finite |-> TRUE, unscaled |-> FALSE, clipped |-> FALSE]

\* optimizer.zero_grad(); scaler.scale(loss).backward(): fresh scaled gradients,
\* finite or not
Backward(finite) ==
  [present |-> TRUE, finite |-> finite, unscaled |-> FALSE, clipped |-> FALSE]

NUM_STEPS(train_len, num_epochs) == train_len * num_epochs
WARMUP_STEPS(train_len, num_epochs) == NUM_STEPS(train_len, num_epochs) \div WarmupDivisor

\* (mutant: the gate is dropped, every step clips)
ClipGate_Always(ep, warmup_steps) == TRUE

\* if epoch > WARMUP_STEPS
ClipGate(ep, warmup_steps) == ep > warmup_steps

\* scaler.unscale_(optimizer)
Unscale(g) == [g EXCEPT !.unscaled = TRUE]

\* torch.nn.utils.clip_grad_norm_(model.parameters(), max_norm=1.0)
Clip(g) == [g EXCEPT !.clipped = TRUE]

\* the gradients as scaler.step leaves them: unscaled there unless unscale_ ran
AfterScalerStep(g) == [g EXCEPT !.unscaled = TRUE]

\* (mutant: optimizer.step() in place of scaler.step(optimizer))
ScalerStep_Unguarded(p, g) == p + 1

\* scaler.step(optimizer): optimizer.step() runs unless the unscaled gradients
\* hold an inf/NaN
ScalerStep(p, g) == IF g.finite THEN p + 1 ELSE p

InitScaler == [scale |-> <<InitScale, 1>>, growth_tracker |-> 0]

\* scaler.update(): back off by 0.5 after a skipped step, grow by 2.0 after
\* GrowthInterval consecutive unskipped steps
ScalerUpdate(sc, g) ==
  IF ~g.finite
    THEN [scale |-> RatMul(sc.scale, <<1, 2>>), growth_tracker |-> 0]
    ELSE IF sc.growth_tracker + 1 = GrowthInterval
           THEN [scale |-> RatMul(sc.scale, <<2, 1>>), growth_tracker |-> 0]
           ELSE [sc EXCEPT !.growth_tracker = @ + 1]

(* ------------------------------------------------------------------ *)
(* The learning-rate scheduler (pile.schedulers.WarmupCosineScheduler)  *)
(* ------------------------------------------------------------------ *)
\* lr=0.08
BaseLr == <<2, 25>>

InitLr == [phase |-> "base", v |-> BaseLr]

\* (mutant: the ramp counts from 0, base_lr * s / warmup_steps)
ScheduleLr_ZeroBased(s, total_steps, warmup_steps) ==
  IF s < warmup_steps
    THEN [phase |-> "warmup", v |-> Rat(BaseLr[1] * s, BaseLr[2] * warmup_steps)]
    ELSE LET rest == IF total_steps - warmup_steps > 1 THEN total_steps - warmup_steps ELSE 1
             done == Min(s - warmup_steps, rest)
         IN  [phase |-> "cosine", v |-> Rat(done, rest)]

\* the rate of step s: the linear ramp as a rational; the cosine phase as
\* the clamped progress p, standing for base_lr * 0.5 * (1 + cos(pi * p))
ScheduleLr(s, total_steps, warmup_steps) ==
  IF s < warmup_steps
    THEN [phase |-> "warmup", v |-> Rat(BaseLr[1] * (s + 1), BaseLr[2] * warmup_steps)]
    ELSE LET rest == IF total_steps - warmup_steps > 1 THEN total_steps - warmup_steps ELSE 1
             done == Min(s - warmup_steps, rest)
         IN  [phase |-> "cosine", v |-> Rat(done, rest)]

\* (mutant: the constructor takes every schedule)
SchedulerAccepts_Any(total_steps, warmup_steps) == TRUE

\* WarmupCosineScheduler(optimizer, total_steps, warmup_steps): a degenerate
\* schedule is rejected with a configuration error
SchedulerAccepts(total_steps, warmup_steps) ==
  total_steps # 0 /\ warmup_steps < total_steps

\* WarmupCosineScheduler.step(): the rate of the current step is written to the
\* optimizer and the step counter is incremented
SchedulerStep(sched, total_steps, warmup_steps) ==
  [counter |-> sched.counter + 1,
   lr |-> ScheduleLr(sched.counter, total_steps, warmup_steps)]

\* (mutant: the scheduler is advanced only when the optimizer update ran)
StepScheduler_UnlessSkipped(sched, g, total_steps, warmup_steps) ==
  IF g.finite THEN SchedulerStep(sched, total_steps, warmup_steps) ELSE sched

\* main: scheduler.step() at the end of every iteration, whatever the
\* gradients g of the step were
StepScheduler(sched, g, total_steps, warmup_steps) ==
  SchedulerStep(sched, total_steps, warmup_steps)

\* get_current_lr(optimizer)
get_current_lr(optimizer_lr) == optimizer_lr

(* ------------------------------------------------------------------ *)
(* The calls of one iteration of the training loop, in program order    *)
(* ------------------------------------------------------------------ *)
\* (mutant: scheduler.step() ahead of the optimizer update)
StepOps_SchedulerFirst(clip) ==
  <<"forward", "zero_grad", "backward", "scheduler.step">>
  \o (IF clip THEN <<"unscale_", "clip_grad_norm_">> ELSE <<>>)
  \o <<"scaler.step", "scaler.update", "accumulate">>

\* the body of `for images, labels in train_loader`; clip: the gate is open
StepOps(clip) ==
  <<"forward", "zero_grad", "backward">>
  \o (IF clip THEN <<"unscale_", "clip_grad_norm_">> ELSE <<>>)
  \o <<"scaler.step", "scaler.update", "accumulate", "scheduler.step">>

\* the effect of one call on the state of the step; inp: the batch, its
\* ranking, whether its gradients are finite, the schedule's lengths
ApplyOp(st, op, inp) ==
  CASE op = "forward" ->
         [st EXCEPT !.outputs = inp.batch.outputs, !.labels = inp.batch.labels,
                    !.loss = inp.batch.loss]
    [] op = "zero_grad" -> [st EXCEPT !.grad = NoGrad]
    [] op = "backward" -> [st EXCEPT !.grad = Backward(inp.finite)]
    [] op = "unscale_" -> [st EXCEPT !.grad = Unscale(st.grad)]
    [] op = "clip_grad_norm_" -> [st EXCEPT !.grad = Clip(st.grad)]
    [] op = "scaler.step" ->
         [st EXCEPT !.grad = AfterScalerStep(st.grad),
                    !.params = ScalerStep(st.params, st.grad),
                    !.update_lr = IF ScalerStep(st.params, st.grad) # st.params
                                    THEN st.lr ELSE st.update_lr]
    [] op = "scaler.update" -> [st EXCEPT !.scaler = ScalerUpdate(st.scaler, st.grad)]
    [] op = "accumulate" ->
         [st EXCEPT !.running = TrainAccumulate(st.running, inp.batch.loss, inp.batch.labels,
                                                Correct(inp.pred, inp.batch.labels)),
                    !.pred = inp.pred]
    [] op = "scheduler.step" ->
         LET sched == StepScheduler([counter |-> st.counter, lr |-> st.lr], st.grad,
                                    inp.total_steps, inp.warmup_steps)
         IN  [st EXCEPT !.counter = sched.counter, !.lr = sched.lr]

RECURSIVE RunOps(_, _, _)
RunOps(st, todo, inp) ==
  IF todo = <<>> THEN st ELSE RunOps(ApplyOp(st, Head(todo), inp), Tail(todo), inp)

(* ------------------------------------------------------------------ *)
(* The model's mode (model.training)                                    *)
(* ------------------------------------------------------------------ *)
\* (mutant: model.train() is called once, ahead of the epoch loop)
ModelTrain_BeforeLoop(mode) == mode

\* model.train() at the head of every epoch
ModelTrain(mode) == TRUE

\* model.eval() at the head of validate
ModelEval(mode) == FALSE

(* ------------------------------------------------------------------ *)
(* Epoch-level policy                                                   *)
(* ------------------------------------------------------------------ *)
\* (mutant: the evaluation falls on the last epoch of each interval)
IsEvalEpoch_LastOfInterval(ep, interval) == (ep + 1) % interval = 0

\* (mutant: no evaluation before the first interval has passed)
IsEvalEpoch_SkipsFirst(ep, interval) == ep > 0 /\ ep % interval = 0

\* if epoch % METRICS_UPDATE_STEP == 0
IsEvalEpoch(ep, interval) == ep % interval = 0

Last(s) == s[Len(s)]

NoMetrics == [loss |-> <<>>, top1 |-> <<>>, top5 |-> <<>>]

\* (mutant: insert(0, ...) in place of append)
AppendRecord_Prepend(metrics, rec) ==
  [loss |-> <<rec.loss>> \o metrics.loss,
   top1 |-> <<rec.top1>> \o metrics.top1,
   top5 |-> <<rec.top5>> \o metrics.top5]

\* metrics['loss'].append(...); metrics['top1'].append(...); metrics['top5'].append(...)
AppendRecord(metrics, rec) ==
  [loss |-> Append(metrics.loss, rec.loss),
   top1 |-> Append(metrics.top1, rec.top1),
   top5 |-> Append(metrics.top5, rec.top5)]

\* (mutant: index [0] in place of [-1])
CarriedForward_First(metrics) ==
  [loss |-> IF Len(metrics.loss) > 0 THEN metrics.loss[1] ELSE Zero,
   top1 |-> IF Len(metrics.top1) > 0 THEN metrics.top1[1] ELSE Zero,
   top5 |-> IF Len(metrics.top5) > 0 THEN metrics.top5[1] ELSE Zero]

\* (mutant: the fallback of an empty list is 1.0)
CarriedForward_FallbackOne(metrics) ==
  [loss |-> IF Len(metrics.loss) > 0 THEN Last(metrics.loss) ELSE <<1, 1>>,
   top1 |-> IF Len(metrics.top1) > 0 THEN Last(metrics.top1) ELSE <<1, 1>>,
   top5 |-> IF Len(metrics.top5) > 0 THEN Last(metrics.top5) ELSE <<1, 1>>]

\* the else branch: test_metrics[...][-1] if len(test_metrics[...]) > 0 else 0.0
CarriedForward(metrics) ==
  [loss |-> IF Len(metrics.loss) > 0 THEN Last(metrics.loss) ELSE Zero,
   top1 |-> IF Len(metrics.top1) > 0 THEN Last(metrics.top1) ELSE Zero,
   top5 |-> IF Len(metrics.top5) > 0 THEN Last(metrics.top5) ELSE Zero]

\* the line print(...) writes at the end of an epoch, numbers as formatted
PrintedLine(ep, rate, train, test) ==
  [epoch |-> ep + 1,
   lr |-> rate,
   train_loss |-> Fmt(train.loss, 4),
   test_loss |-> Fmt(test.loss, 4),
   train_top1 |-> Fmt(train.top1, 2),
   train_top5 |-> Fmt(train.top5, 2),
   test_top1 |-> Fmt(test.top1, 2),
   test_top5 |-> Fmt(test.top5, 2)]

\* (mutant: the most recent entry in place of the maximum)
Best_Last(s) == IF Len(s) = 0 THEN Zero ELSE Last(s)

\* max(metrics['top1']) if metrics['top1'] else 0.0
Best(s) ==
  IF Len(s) = 0 THEN Zero
  ELSE CHOOSE x \in {s[i] : i \in 1 .. Len(s)} :
         \A y \in {s[i] : i \in 1 .. Len(s)} : RatLeq(y, x)

(* ------------------------------------------------------------------ *)
(* State                                                                *)
(* ------------------------------------------------------------------ *)
VARIABLES
  cfg,            \* the run's configuration and data: METRICS_UPDATE_STEP, NUM_EPOCHS,
                  \* len(train_loader), len(test_loader), the names of the sets of
                  \* batches they yield, whether backward yields finite gradients
  pc,             \* "epoch" (head of the epoch loop), "train", "validate", "done",
                  \* "error" (ZeroDivisionError), "config_error" (schedule rejected)
  epoch,          \* for epoch in range(NUM_EPOCHS)
  it,             \* batches consumed from the loader of the current pass
  training,       \* model.training
  params,         \* the model's parameters: optimizer updates applied so far
  lr,             \* the optimizer's active learning rate
  current_lr,     \* main's current_lr
  counter,        \* the scheduler's step counter
  scaler,         \* the GradScaler: scale, growth_tracker
  grad,           \* the parameters' gradients
  ops,            \* the calls of the last optimization step, in the order made
  update_lr,      \* the learning rate the last optimizer update was made with
  running,        \* main's running_* totals
  totals,         \* validate's total_* / top*_correct
  outputs,        \* outputs of the last batch
  labels,         \* labels of the last batch
  loss,           \* loss.item() of the last batch
  pred,           \* pred (after pred.t()) of the last batch
  train_rec,      \* avg_train_loss, train_top1, train_top5
  train_metrics,
  test_metrics,
  printed,        \* the per-epoch lines written so far
  best            \* best_train_top1, best_test_top1

vars == <<cfg, pc, epoch, it, training, params, lr, current_lr, counter, scaler, grad,
          ops, update_lr,
          running, totals, outputs, labels, loss, pred, train_rec, train_metrics,
          test_metrics, printed, best>>

step_vars == <<params, lr, counter, scaler, grad, ops, update_lr>>
batch_vars == <<outputs, labels, loss, pred>>
history_vars == <<train_metrics, test_metrics, printed>>

WarmupSteps == WARMUP_STEPS(cfg.train_len, cfg.num_epochs)
TotalSteps == NUM_STEPS(cfg.train_len, cfg.num_epochs)

\* main() up to the epoch loop
InitState(c) ==
  /\ cfg = c
  /\ pc = IF SchedulerAccepts(NUM_STEPS(c.train_len, c.num_epochs),
                              WARMUP_STEPS(c.train_len, c.num_epochs))
            THEN "epoch" ELSE "config_error"
  /\ epoch = 0
  /\ it = 0
  /\ training = TRUE
  /\ params = 0
  /\ lr = InitLr
  /\ current_lr = InitLr
  /\ counter = 0
  /\ scaler = InitScaler
  /\ grad = NoGrad
  /\ ops = <<>>
  /\ update_lr = InitLr
  /\ running = NoTotals
  /\ totals = NoTotals
  /\ outputs = <<>>
  /\ labels = <<>>
  /\ loss = 0
  /\ pred = <<>>
  /\ train_rec = ZeroRecord
  /\ train_metrics = NoMetrics
  /\ test_metrics = NoMetrics
  /\ printed = <<>>
  /\ best = [train |-> Zero, test |-> Zero]

(* ------------------------------------------------------------------ *)
(* Actions                                                              *)
(* ------------------------------------------------------------------ *)
\* the head of an epoch: model.train(), current_lr, the running totals reset
EpochBegin ==
  /\ pc = "epoch"
  /\ epoch < cfg.num_epochs
  /\ pc' = "train"
  /\ it' = 0
  /\ training' = ModelTrain(training)
  /\ current_lr' = get_current_lr(lr)
  /\ running' = NoTotals
  /\ UNCHANGED <<cfg, epoch, step_vars, totals, batch_vars, train_rec, history_vars, best>>

\* one iteration of the loop over train_loader: one optimization step
TrainBatch ==
  /\ pc = "train"
  /\ it < cfg.train_len
  /\ \E b \in Batches(cfg.train_batches), finite \in cfg.grad_kinds :
       \E p \in TopKChoices(b.outputs) :
         \E inp \in {[batch |-> b, pred |-> Transpose(p), finite |-> finite,
                       total_steps |-> TotalSteps, warmup_steps |-> WarmupSteps]} :
           \E st \in {RunOps([grad |-> grad, params |-> params, scaler |-> scaler,
                              running |-> running, counter |-> counter, lr |-> lr,
                              update_lr |-> update_lr, outputs |-> outputs,
                              labels |-> labels, loss |-> loss, pred |-> pred],
                             StepOps(ClipGate(epoch, WarmupSteps)), inp)} :
             /\ grad' = st.grad
             /\ params' = st.params
             /\ scaler' = st.scaler
             /\ running' = st.running
             /\ counter' = st.counter
             /\ lr' = st.lr
             /\ update_lr' = st.update_lr
             /\ outputs' = st.outputs
             /\ labels' = st.labels
             /\ loss' = st.loss
             /\ pred' = st.pred
             /\ ops' = StepOps(ClipGate(epoch, WarmupSteps))
  /\ it' = it + 1
  /\ UNCHANGED <<cfg, pc, epoch, training, current_lr, totals, train_rec, history_vars, best>>

\* train_loader is exhausted: the epoch's training record, then either the call
\* of validate or the else branch, its print and the next epoch
TrainPassEnd ==
  /\ pc = "train"
  /\ it = cfg.train_len
  /\ IF Raised(Finalize(running))
       THEN /\ pc' = "error"
            /\ UNCHANGED <<epoch, it, training, totals, train_rec, history_vars>>
       ELSE IF IsEvalEpoch(epoch, cfg.interval)
         THEN /\ train_rec' = Finalize(running)
              /\ pc' = "validate"
              /\ it' = 0
              /\ training' = ModelEval(training)
              /\ totals' = NoTotals
              /\ UNCHANGED <<epoch, history_vars>>
         ELSE LET rec == Finalize(running)
                  test == CarriedForward(test_metrics)
              IN  /\ train_rec' = rec
                  /\ train_metrics' = AppendRecord(train_metrics, rec)
                  /\ printed' = Append(printed, PrintedLine(epoch, current_lr, rec, test))
                  /\ epoch' = epoch + 1
                  /\ pc' = "epoch"
                  /\ UNCHANGED <<it, training, totals, test_metrics>>
  /\ UNCHANGED <<cfg, step_vars, current_lr, running, batch_vars, best>>

\* (mutant: the scheduler is advanced once per validation batch)
ValidateBatch_AdvancesScheduler ==
  /\ pc = "validate"
  /\ it < cfg.val_len
  /\ \E b \in Batches(cfg.val_batches) :
       \E p \in TopKChoices(b.outputs) :
         \E predT \in {Transpose(p)} :
           \E correct \in {Correct(predT, b.labels)} :
             /\ totals' = ValAccumulate(totals, b.loss, b.labels, correct)
             /\ outputs' = b.outputs
             /\ labels' = b.labels
             /\ loss' = b.loss
             /\ pred' = predT
  /\ it' = it + 1
  /\ LET sched == SchedulerStep([counter |-> counter, lr |-> lr], TotalSteps, WarmupSteps)
     IN  counter' = sched.counter /\ lr' = sched.lr
  /\ UNCHANGED <<cfg, pc, epoch, training, params, scaler, grad, ops, update_lr, current_lr,
                 running, train_rec, history_vars, best>>

\* one iteration of validate's loop
ValidateBatch ==
  /\ pc = "validate"
  /\ it < cfg.val_len
  /\ \E b \in Batches(cfg.val_batches) :
       \E p \in TopKChoices(b.outputs) :
         \E predT \in {Transpose(p)} :
           \E correct \in {Correct(predT, b.labels)} :
             /\ totals' = ValAccumulate(totals, b.loss, b.labels, correct)
             /\ outputs' = b.outputs
             /\ labels' = b.labels
             /\ loss' = b.loss
             /\ pred' = predT
  /\ it' = it + 1
  /\ UNCHANGED <<cfg, pc, epoch, training, step_vars, current_lr, running, train_rec,
                 history_vars, best>>

\* validate returns: the records of the epoch are appended and printed
ValidateReturn ==
  /\ pc = "validate"
  /\ it = cfg.val_len
  /\ IF Raised(Finalize(totals))
       THEN /\ pc' = "error"
            /\ UNCHANGED <<epoch, history_vars>>
       ELSE LET test == Finalize(totals)
            IN  /\ train_metrics' = AppendRecord(train_metrics, train_rec)
                /\ test_metrics' = AppendRecord(test_metrics, test)
                /\ printed' = Append(printed, PrintedLine(epoch, current_lr, train_rec, test))
                /\ epoch' = epoch + 1
                /\ pc' = "epoch"
  /\ UNCHANGED <<cfg, it, training, step_vars, current_lr, running, totals, batch_vars,
                 train_rec, best>>

\* after the last epoch: the best results
Finish ==
  /\ pc = "epoch"
  /\ epoch = cfg.num_epochs
  /\ best' = [train |-> Best(train_metrics.top1), test |-> Best(test_metrics.top1)]
  /\ pc' = "done"
  /\ UNCHANGED <<cfg, epoch, it, training, step_vars, current_lr, running, totals,
                 batch_vars, train_rec, history_vars>>

Next ==
  \/ EpochBegin
  \/ TrainBatch
  \/ TrainPassEnd
  \/ ValidateBatch
  \/ ValidateReturn
  \/ Finish

(* ------------------------------------------------------------------ *)
(* Configurations and specifications                                    *)
(* ------------------------------------------------------------------ *)
Config(interval, num_epochs, train_len, val_len, train_batches, val_batches, grad_kinds) ==
  [interval |-> interval, num_epochs |-> num_epochs, train_len |-> train_len,
   val_len |-> val_len, train_batches |-> train_batches, val_batches |-> val_batches,
   grad_kinds |-> grad_kinds]

\* every interval and epoch count, one batch per pass, records that differ
CadenceConfigs ==
  {Config(i, e, 1, 1, "hitmiss", "hitmiss", {TRUE}) :
     i \in 1 .. MaxInterval, e \in 1 .. MaxEpochs}

Init == \E c \in CadenceConfigs : InitState(c)

Spec == Init /\ [][Next]_vars

\* steps whose gradients may be non-finite, several batches per pass
StepConfigs ==
  {Config(i, e, n, m, "pair", "pair", {TRUE, FALSE}) :
     i \in 1 .. 2, e \in 1 .. MaxStepEpochs, n \in 1 .. MaxBatches, m \in 1 .. MaxBatches}

InitStep == \E c \in StepConfigs : InitState(c)

SpecStep == InitStep /\ [][Next]_vars

\* the program's NUM_EPOCHS, with enough batches for WARMUP_STEPS > 0
LongConfigs ==
  {Config(i, NUM_EPOCHS, n, 1, "pair", "pair", {TRUE}) :
     i \in {METRICS_UPDATE_STEP, 2}, n \in 1 .. MaxLongBatches}

InitLong == \E c \in LongConfigs : InitState(c)

SpecLong == InitLong /\ [][Next]_vars

\* one epoch in which the training pass or the validation pass draws 1 ..
\* MaxBatches batches from MetricBatches and the other pass is the one
\* PairBatch; and two epochs of the hit and the miss, the second without
\* validation
MetricConfigs ==
  {Config(1, 1, n, 1, "metric", "pair", {TRUE}) : n \in 1 .. MaxBatches}
  \cup {Config(1, 1, 1, m, "pair", "metric", {TRUE}) : m \in 1 .. MaxBatches}
  \cup {Config(2, 2, 1, 1, "hitmiss", "hitmiss", {TRUE})}

InitMetrics == \E c \in MetricConfigs : InitState(c)

SpecMetrics == InitMetrics /\ [][Next]_vars

\* loaders that may be empty: 0 .. MaxBatches training batches, no or one
\* validation batch
EmptyConfigs ==
  {Config(i, e, n, m, "hitmiss", "hitmiss", {TRUE}) :
     i \in 1 .. 2, e \in 1 .. MaxStepEpochs, n \in 0 .. MaxBatches, m \in 0 .. 1}

InitEmpty == \E c \in EmptyConfigs : InitState(c)

SpecEmpty == InitEmpty /\ [][Next]_vars

\* epoch counts of 100 and more per batch of the loader: the warmup spans
\* several epochs
WarmConfigs ==
  {Config(METRICS_UPDATE_STEP, MaxWarmEpochs, n, 1, "pair", "pair", {TRUE}) :
     n \in 1 .. MaxBatches}

InitWarm == \E c \in WarmConfigs : InitState(c)

SpecWarm == InitWarm /\ [][Next]_vars

\* The epoch-level policy as pure functions of the histories: the else branch
\* and the best-value query applied to histories drawn from bounded sets, the
\* empty one included, from any epoch on.
PolicyConfigs ==
  {Config(i, e, 1, 1, "hitmiss", "hitmiss", {TRUE}) : i \in 1 .. 2, e \in 1 .. MaxPolicyEpochs}

\* the records validate or a training pass produce from one batch
PolicyRecords ==
  {Finalize(ValAccumulate(NoTotals, b.loss, b.labels, Correct(Transpose(p), b.labels))) :
     b \in {HitBatch, MissBatch}, p \in TopKChoices(HitBatch.outputs)}

RECURSIVE MetricsOf(_, _)
MetricsOf(recs, k) ==
  IF k = 0 THEN NoMetrics ELSE AppendRecord(MetricsOf(recs, k - 1), recs[k])

Histories ==
  UNION {{MetricsOf(recs, k) : recs \in [1 .. k -> PolicyRecords]} : k \in 0 .. MaxHistory}

InitPolicy ==
  \E c \in PolicyConfigs, e \in 0 .. MaxPolicyEpochs, tr \in Histories, te \in Histories :
    /\ e <= c.num_epochs
    /\ cfg = c
    /\ pc = "epoch"
    /\ epoch = e
    /\ it = 0
    /\ training = TRUE
    /\ params = 0
    /\ lr = InitLr
    /\ current_lr = InitLr
    /\ counter = 0
    /\ scaler = InitScaler
    /\ grad = NoGrad
    /\ ops = <<>>
    /\ update_lr = InitLr
    /\ running = NoTotals
    /\ totals = NoTotals
    /\ outputs = <<>>
    /\ labels = <<>>
    /\ loss = 0
    /\ pred = <<>>
    /\ train_rec = ZeroRecord
    /\ train_metrics = tr
    /\ test_metrics = te
    /\ printed = <<>>
    /\ best = [train |-> Zero, test |-> Zero]

SpecPolicy == InitPolicy /\ [][Next]_vars

(* ------------------------------------------------------------------ *)
(* Properties                                                           *)
(* ------------------------------------------------------------------ *)
MetricFields == {"loss", "top1", "top5"}

\* s is t with exactly one entry more at its end
ExtendsByOne(s, t) == Len(s) = Len(t) + 1 /\ SubSeq(s, 1, Len(t)) = t

\* the step that leaves the training loop of an epoch without an error
LeavesTrainPass == pc = "train" /\ pc' \in {"validate", "epoch"}

\* the step in which validate returns its record
ValidateReturns == pc = "validate" /\ pc' = "epoch"

\* the test fields of a printed line
PrintedTest(line) == <<line.test_loss, line.test_top1, line.test_top5>>
PrintedTrain(line) == <<line.train_loss, line.train_top1, line.train_top5>>
FmtRecord(l, t1, t5) == <<Fmt(l, 4), Fmt(t1, 2), Fmt(t5, 2)>>

\* C1: validate is entered at the end of the training pass of epoch e iff
\* e mod interval = 0; the step in which validate returns extends each list of
\* test_metrics by exactly one entry at its end and every other step leaves
\* test_metrics unchanged; in every state test_metrics holds
\* ceil(epoch / interval) records, record j being the one printed for epoch
\* (j - 1) * interval.
C1_TestLength ==
  \A f \in MetricFields :
    Len(test_metrics[f]) = (epoch + cfg.interval - 1) \div cfg.interval

C1_EpochOrder ==
  \A j \in 1 .. Len(test_metrics.loss) :
    /\ (j - 1) * cfg.interval + 1 <= Len(printed)
    /\ FmtRecord(test_metrics.loss[j], test_metrics.top1[j], test_metrics.top5[j])
         = PrintedTest(printed[(j - 1) * cfg.interval + 1])

C1_Step ==
  /\ LeavesTrainPass => (pc' = "validate" <=> epoch % cfg.interval = 0)
  /\ pc' = "validate" /\ pc # "validate" => LeavesTrainPass
  /\ IF ValidateReturns
       THEN \A f \in MetricFields : ExtendsByOne(test_metrics'[f], test_metrics[f])
       ELSE test_metrics' = test_metrics

\* C1: validate runs exactly on epochs with epoch mod interval = 0 and only its
\* return extends test_metrics, by one record at the end; the history holds
\* ceil(epoch / interval) records in epoch order.
C1_EvaluationCadence == [](C1_TestLength /\ C1_EpochOrder) /\ [][C1_Step]_vars

\* six epochs at interval 3: two evaluations, with different records
C1_Witness ==
  /\ pc = "done"
  /\ cfg.interval = 3
  /\ epoch = 6
  /\ Len(test_metrics.top1) = 2
  /\ test_metrics.top1[1] # test_metrics.top1[2]

\* C2: the line printed for an epoch e without validation shows the record of
\* the evaluation of epoch e - (e mod interval): the test fields printed for
\* that epoch, which are the formatted entry (e div interval) + 1 of
\* test_metrics, the last entry at the time of epoch e.
C2_CarriedForward ==
  \A i \in 1 .. Len(printed) :
    LET e == i - 1
        r == e % cfg.interval
        j == (e \div cfg.interval) + 1
    IN  r # 0 =>
          /\ PrintedTest(printed[i]) = PrintedTest(printed[i - r])
          /\ j <= Len(test_metrics.loss)
          /\ (i = Len(printed) => j = Len(test_metrics.loss))
          /\ PrintedTest(printed[i])
               = FmtRecord(test_metrics.loss[j], test_metrics.top1[j], test_metrics.top5[j])

\* interval 3 over 6 epochs: epochs 4 and 5 show the record of epoch 3, which
\* differs from the record of epoch 0
C2_Witness ==
  /\ cfg.interval = 3
  /\ Len(printed) = 6
  /\ PrintedTest(printed[4]) # PrintedTest(printed[1])
  /\ PrintedTest(printed[6]) = PrintedTest(printed[4])

\* C3: in every state each list of train_metrics has exactly `epoch` entries
\* (one per completed epoch), entry i being the record printed for epoch i; the
\* step that completes an epoch, with or without validation, appends the
\* record of that epoch's training totals, and no step changes or removes an
\* earlier entry.
C3_TrainLength ==
  \A f \in MetricFields : Len(train_metrics[f]) = epoch

C3_EntryOfEpoch ==
  /\ Len(printed) = epoch
  /\ \A i \in 1 .. Len(printed) :
       /\ printed[i].epoch = i
       /\ i <= Len(train_metrics.loss)
       /\ FmtRecord(train_metrics.loss[i], train_metrics.top1[i], train_metrics.top5[i])
            = PrintedTrain(printed[i])

C3_Step ==
  IF epoch' = epoch + 1
    THEN /\ \A f \in MetricFields : ExtendsByOne(train_metrics'[f], train_metrics[f])
         /\ Last(train_metrics'.loss) = Rat(running.loss, running.samples)
         /\ Last(train_metrics'.top1) = Rat(100 * running.top1, running.samples)
         /\ Last(train_metrics'.top5) = Rat(100 * running.top5, running.samples)
    ELSE train_metrics' = train_metrics

\* C3: every completed epoch appends exactly one training record; entry i is
\* the record of epoch i and earlier entries never change.
C3_TrainHistory == [](C3_TrainLength /\ C3_EntryOfEpoch) /\ [][C3_Step]_vars

\* an epoch without validation has appended a training record that differs
\* from the one before it
C3_Witness ==
  /\ cfg.interval = 2
  /\ epoch = 2
  /\ pc = "epoch"
  /\ Len(train_metrics.top1) = 2
  /\ Len(test_metrics.top1) = 1
  /\ train_metrics.top1[1] # train_metrics.top1[2]

\* the step that consumes one training batch
IsTrainStep == pc = "train" /\ it' = it + 1

\* x is half of y
IsHalf(x, y) == 2 * x[1] * y[2] = y[1] * x[2]

\* C4: a training step whose gradients are non-finite leaves the parameters
\* as they were and halves the scale, with the clipping gate closed or open,
\* and the loop goes on (the pass is still in its loop, one batch further).
C4_Step ==
  IsTrainStep /\ ~grad'.finite =>
    /\ params' = params
    /\ IsHalf(scaler'.scale, scaler.scale)
    /\ pc' = "train"
    /\ epoch' = epoch

\* C4: a step with non-finite gradients leaves the parameters unchanged and
\* halves the scale, and the loop goes on.
C4_SkippedStep == [][C4_Step]_vars

\* two steps skipped in a row, the first with the gate closed (epoch 0), the
\* second with the gate open (epoch 1)
C4_Witness ==
  /\ cfg.train_len = 1
  /\ epoch = 1
  /\ pc = "train"
  /\ it = 1
  /\ grad.present /\ ~grad.finite /\ grad.clipped
  /\ params = 0
  /\ scaler.scale = <<InitScale \div 4, 1>>

\* the hits of the last batch, counted per sample from pred and labels
LastTop1 == Cardinality({i \in 1 .. Len(labels) : pred[1][i] = labels[i]})
LastTop5 ==
  Cardinality({i \in 1 .. Len(labels) : \E k \in 1 .. Len(pred) : pred[k][i] = labels[i]})

\* C5 as stated: a skipped step advances neither the scheduler's counter nor
\* the running totals.
C5_Original_Step ==
  IsTrainStep /\ ~grad'.finite => counter' = counter /\ running' = running

\* C5 as stated: a skipped step contributes neither to the scheduler nor to
\* the running totals.
C5_Original == [][C5_Original_Step]_vars

\* C5 as amended: a skipped step leaves the parameters unchanged, and it
\* advances the scheduler's counter by one and adds its batch to the running
\* totals exactly as every other step does.
C5_Amended_Step ==
  IsTrainStep /\ ~grad'.finite =>
    /\ params' = params
    /\ counter' = counter + 1
    /\ running'.loss = running.loss + loss' * Len(labels')
    /\ running'.samples = running.samples + Len(labels')
    /\ running'.top1 = running.top1 + Cardinality({i \in 1 .. Len(labels') : pred'[1][i] = labels'[i]})
    /\ running'.top5 = running.top5 +
         Cardinality({i \in 1 .. Len(labels') : \E k \in 1 .. Len(pred') : pred'[k][i] = labels'[i]})

\* C5 as amended: a skipped step leaves the parameters unchanged but advances
\* the scheduler by one and adds its batch to the running totals.
C5_SkippedStepCounts == [][C5_Amended_Step]_vars

\* a pass whose steps were all skipped has counted both of its batches
C5_Witness ==
  /\ pc = "train"
  /\ it = 2
  /\ epoch = 0
  /\ params = 0
  /\ ~grad.finite
  /\ counter = 2
  /\ running.samples = 4
  /\ running.loss = 8
  /\ running.top1 = 2

\* C6: the counter grows by exactly one in a step that consumes a training
\* batch and is unchanged by every other step (validation, epoch boundaries,
\* the end of the run); so it never decreases, and it equals epoch * n plus
\* the batches the current epoch has consumed.
C6_Step == IF IsTrainStep THEN counter' = counter + 1 ELSE counter' = counter

C6_Count ==
  pc # "error" =>
    counter = epoch * cfg.train_len +
                (CASE pc = "train" -> it
                   [] pc = "validate" -> cfg.train_len
                   [] OTHER -> 0)

\* C6: the counter grows by one per consumed training batch and by nothing
\* else; it equals epoch * n plus the batches consumed in the current epoch.
C6_StepCounter == [](C6_Count) /\ [][C6_Step]_vars

\* three epochs of two batches, with a skipped step among them
C6_Witness ==
  /\ pc = "done"
  /\ epoch = 3
  /\ cfg.train_len = 2
  /\ cfg.val_len = 2
  /\ counter = 6
  /\ params < counter

\* the number of optimization steps before the one now being taken: the
\* global index of that step
GlobalStep == epoch * cfg.train_len + it

\* C7: a step that clips has a global step index of at least WARMUP_STEPS.
C7_Step == IsTrainStep /\ grad'.clipped => GlobalStep >= WarmupSteps

\* C7: no step with a global step index below WARMUP_STEPS clips.
C7_NoClipInWarmup == [][C7_Step]_vars

\* the first clipping step of a run whose warmup lasts two steps
C7_Witness ==
  /\ WarmupSteps = 2
  /\ cfg.num_epochs = NUM_EPOCHS
  /\ epoch = 3
  /\ pc = "train"
  /\ it = 1
  /\ grad.clipped
  /\ grad.finite
  /\ params = 3 * cfg.train_len + 1

\* C8 as stated: every step whose global step index is past WARMUP_STEPS
\* unscales and clips its gradients, whatever the epoch.
C8_Step == IsTrainStep /\ GlobalStep > WarmupSteps => grad'.unscaled /\ grad'.clipped

\* C8 as stated: every step past WARMUP_STEPS unscales and clips.
C8_ClipsPastWarmup == [][C8_Step]_vars

\* the step that consumes one validation batch
IsValStep == pc = "validate" /\ it' = it + 1

\* the rational x is n / d
IsRatio(x, n, d) == d > 0 /\ x[2] > 0 /\ x[1] * d = n * x[2]

IsZeroTotals(t) == t.loss = 0 /\ t.samples = 0 /\ t.top1 = 0 /\ t.top5 = 0

\* t1 is t0 with the last batch (loss', labels', pred') added
AddsLastBatch(t1, t0) ==
  /\ t1.loss = t0.loss + loss' * Len(labels')
  /\ t1.samples = t0.samples + Len(labels')
  /\ t1.top1 = t0.top1 + LastTop1'
  /\ t1.top5 = t0.top5 + LastTop5'

\* the record (l, t1, t5) is the average loss and the two percentages of t
IsRecordOf(l, t1, t5, t) ==
  /\ IsRatio(l, t.loss, t.samples)
  /\ IsRatio(t1, 100 * t.top1, t.samples)
  /\ IsRatio(t5, 100 * t.top5, t.samples)

\* C9: a pass starts from zero totals; every batch it consumes adds loss *
\* (number of labels) to the loss sum, the number of labels to the sample
\* count and its hits to the hit counts; the record appended at the end of
\* the pass is loss_sum / sample_count, 100 * top1 / sample_count and
\* 100 * top5 / sample_count.  For the training pass and for validate.
C9_Step ==
  /\ pc = "epoch" /\ pc' = "train" => IsZeroTotals(running')
  /\ pc = "train" /\ pc' = "validate" => IsZeroTotals(totals')
  /\ IsTrainStep => AddsLastBatch(running', running)
  /\ IsValStep => AddsLastBatch(totals', totals)
  /\ ~IsTrainStep /\ pc' # "train" => running' = running
  /\ ~IsValStep /\ pc' # "validate" => totals' = totals
  /\ epoch' = epoch + 1 =>
       IsRecordOf(Last(train_metrics'.loss), Last(train_metrics'.top1),
                  Last(train_metrics'.top5), running)
  /\ ValidateReturns =>
       IsRecordOf(Last(test_metrics'.loss), Last(test_metrics'.top1),
                  Last(test_metrics'.top5), totals)

\* C9: both passes sum loss * size, size and hits over their batches from
\* zero and record the quotients by the sample count.
C9_Accumulation == [][C9_Step]_vars

\* a training pass of a batch of two (loss 3) and a final batch of one (loss 1)
\* has produced the average 7 / 3
C9_Witness ==
  /\ cfg.train_batches = "metric"
  /\ pc = "validate"
  /\ it = 0
  /\ Len(labels) = 1
  /\ loss = 1
  /\ running.samples = 3
  /\ running.loss = 7
  /\ train_rec.loss = <<7, 3>>

\* the best and the worst rank the class c can take in the score vector
BestRank(scores, c) == 1 + Cardinality({d \in DOMAIN scores : scores[d] > scores[c]})
WorstRank(scores, c) == Cardinality({d \in DOMAIN scores : scores[d] >= scores[c]})

\* C10: in the last batch a sample is a top-1 hit exactly when its label is
\* the first of its ranking and a top-5 hit exactly when its label is among
\* the first five; the ranking agrees with the scores (a label that no class
\* ties or beats is first, a label that at most four classes tie or beat is
\* among the five, a hit is never ranked behind strictly better classes);
\* each step adds the numbers of such samples to the totals; so a pass whose
\* samples all hit records top1 = 100 and a pass without top-5 hits records
\* top1 = 0 and top5 = 0.
C10_Ranked ==
  \A i \in 1 .. Len(labels) :
    LET hit1 == pred[1][i] = labels[i]
        hit5 == \E k \in 1 .. 5 : pred[k][i] = labels[i]
    IN  /\ Len(pred) = 5
        /\ WorstRank(outputs[i], labels[i]) <= 1 => hit1
        /\ hit1 => BestRank(outputs[i], labels[i]) <= 1
        /\ WorstRank(outputs[i], labels[i]) <= 5 => hit5
        /\ hit5 => BestRank(outputs[i], labels[i]) <= 5
        /\ BestRank(outputs[i], labels[i]) >= 6 => ~hit1 /\ ~hit5

C10_Step ==
  /\ IsTrainStep =>
       /\ running'.top1 = running.top1 + LastTop1'
       /\ running'.top5 = running.top5 + LastTop5'
  /\ IsValStep =>
       /\ totals'.top1 = totals.top1 + LastTop1'
       /\ totals'.top5 = totals.top5 + LastTop5'
  /\ epoch' = epoch + 1 =>
       /\ running.top1 = running.samples => Last(train_metrics'.top1) = <<100, 1>>
       /\ running.top5 = 0 =>
            Last(train_metrics'.top1) = <<0, 1>> /\ Last(train_metrics'.top5) = <<0, 1>>
  /\ ValidateReturns =>
       /\ totals.top1 = totals.samples => Last(test_metrics'.top1) = <<100, 1>>
       /\ totals.top5 = 0 =>
            Last(test_metrics'.top1) = <<0, 1>> /\ Last(test_metrics'.top5) = <<0, 1>>

\* C10: the hit counts added per batch are the numbers of samples whose label
\* is ranked first / among the first five; all-hit passes record 100, passes
\* with every label ranked 6th or lower record 0 and 0.
C10_TopKHits == [](C10_Ranked) /\ [][C10_Step]_vars

\* a validation pass of two batches whose samples all have their label ranked
\* first, by a score vector in which rank and class differ: top1 is 100
C10_Witness ==
  /\ cfg.val_batches = "metric"
  /\ pc = "done"
  /\ totals.samples = 4
  /\ totals.top1 = 4
  /\ outputs = <<Ascending, Ascending>>
  /\ labels = <<NumClasses, NumClasses>>
  /\ test_metrics.top1 = <<<<100, 1>>>>

\* the step that ends a pass: its loader is exhausted
EndsTrainPass == pc = "train" /\ it = cfg.train_len /\ pc' # "train"
EndsValPass == pc = "validate" /\ it = cfg.val_len /\ pc' # "validate"

C11_Step ==
  /\ EndsTrainPass /\ running.samples = 0
       => pc' = "error" /\ UNCHANGED history_vars
  /\ EndsValPass /\ totals.samples = 0
       => pc' = "error" /\ UNCHANGED history_vars
  /\ pc # "error" /\ pc' = "error"
       => \/ EndsTrainPass /\ running.samples = 0
          \/ EndsValPass /\ totals.samples = 0

\* once failed, the histories hold the records of the epochs before the
\* failed one and nothing of the failed epoch
C11_NoRecord ==
  pc = "error" =>
    /\ Len(printed) = epoch
    /\ \A f \in MetricFields :
         /\ Len(train_metrics[f]) = epoch
         /\ Len(test_metrics[f]) = (epoch + cfg.interval - 1) \div cfg.interval

IsBestOf(b, s) ==
  IF Len(s) = 0
    THEN b = Zero
    ELSE /\ \E i \in 1 .. Len(s) : s[i] = b
         /\ \A i \in 1 .. Len(s) : RatLeq(s[i], b)

C12_Best ==
  pc = "done" =>
    /\ IsBestOf(best.train, train_metrics.top1)
    /\ IsBestOf(best.test, test_metrics.top1)

\* the else branch adds nothing to test_metrics: what it reports, carried
\* forward or the zero, is not among the entries the best is taken of
C12_Step == pc = "train" /\ pc' = "epoch" => test_metrics' = test_metrics

\* C12: the best train top-1 and the best test top-1 are the maxima of the top1
\* lists of train_metrics and of test_metrics, each taken of its own list, and
\* 0.0 for an empty list; test_metrics receives nothing from an epoch without
\* validation, so the best test top-1 is the maximum of the evaluations alone.
C12_BestQuery == [](C12_Best) /\ [][C12_Step]_vars

\* the best of a history whose last entry is not its greatest and whose epochs
\* were not all evaluated
C12_Witness ==
  /\ pc = "done"
  /\ Len(test_metrics.top1) >= 2
  /\ Len(test_metrics.top1) < Len(train_metrics.top1)
  /\ best.test # Last(test_metrics.top1)
  /\ best.test # Zero
  /\ best.train # best.test

\* the query on empty histories
C12_EmptyWitness ==
  /\ pc = "done"
  /\ train_metrics = NoMetrics
  /\ test_metrics = NoMetrics
  /\ best = [train |-> Zero, test |-> Zero]

\* the schedule main builds is degenerate
DegenerateSchedule ==
  \/ cfg.train_len * cfg.num_epochs = 0
  \/ (cfg.train_len * cfg.num_epochs) \div WarmupDivisor >= cfg.train_len * cfg.num_epochs

C14_Warmup == (cfg.train_len * cfg.num_epochs) \div WarmupDivisor

\* after g <= warmup_steps steps the optimizer holds the rate of step g - 1,
\* base_lr * g / warmup_steps, which is base_lr for g = warmup_steps
C14_Ramp ==
  pc = "train" /\ GlobalStep >= 1 /\ GlobalStep <= C14_Warmup =>
    /\ lr.phase = "warmup"
    /\ lr.v[1] * BaseLr[2] * C14_Warmup = BaseLr[1] * GlobalStep * lr.v[2]
    /\ GlobalStep = C14_Warmup => lr.v = BaseLr
    /\ counter = GlobalStep

\* the example of the spec: warmup_steps 5, total_steps 20, the rate of step 4
C14_Example == ScheduleLr(4, 20, 5) = [phase |-> "warmup", v |-> BaseLr]

C14_Step ==
  IsTrainStep /\ GlobalStep >= 1 /\ GlobalStep + 1 <= C14_Warmup =>
    /\ RatLeq(lr.v, lr'.v)
    /\ lr.v # lr'.v

\* C14: while s < warmup_steps the scheduler writes base_lr * (s + 1) /
\* warmup_steps for step s, s being the number of steps run since the start of
\* the run whatever the epoch; the rate never decreases from one warmup step to
\* the next and the rate of step warmup_steps - 1 is base_lr (0.08 at step 4
\* for warmup_steps 5).
C14_WarmupRamp == [](C14_Ramp /\ C14_Example) /\ [][C14_Step]_vars

\* the last warmup step has run, in a later epoch than the first
C14_Witness ==
  /\ pc = "train"
  /\ C14_Warmup = 5
  /\ GlobalStep = C14_Warmup
  /\ epoch = 2
  /\ lr = [phase |-> "warmup", v |-> BaseLr]

\* the step of an epoch that takes the else branch
TakesElseBranch == pc = "train" /\ it = cfg.train_len /\ epoch % cfg.interval # 0

C15_Step ==
  TakesElseBranch /\ test_metrics = NoMetrics /\ running.samples > 0 =>
    /\ pc' = "epoch"
    /\ epoch' = epoch + 1
    /\ Len(printed') = Len(printed) + 1
    /\ PrintedTest(Last(printed')) = <<0, 0, 0>>
    /\ test_metrics' = NoMetrics

\* C15: an epoch without validation that finds test_metrics empty does not
\* fail: it prints 0.0 as test loss, test top-1 and test top-5, goes on to the
\* next epoch and leaves test_metrics empty.
C15_SentinelZero == [][C15_Step]_vars

\* the else branch has run on an empty test history
C15_Witness ==
  /\ pc = "epoch"
  /\ epoch % cfg.interval = 0
  /\ epoch >= 2
  /\ test_metrics = NoMetrics
  /\ Len(printed) >= 1
  /\ PrintedTest(Last(printed)) = <<0, 0, 0>>
  /\ PrintedTrain(Last(printed)) # <<0, 0, 0>>

\* position of the first call of op in the last step, 0 when it was not made
OpIndex(op) ==
  IF \E i \in 1 .. Len(ops) : ops[i] = op
    THEN CHOOSE i \in 1 .. Len(ops) : ops[i] = op /\ \A j \in 1 .. i - 1 : ops[j] # op
    ELSE 0

OpCount(op) == Cardinality({i \in 1 .. Len(ops) : ops[i] = op})

C16_Order ==
  IF ~grad.present
    THEN ops = <<>>
    ELSE /\ ops = IF grad.clipped
                    THEN <<"forward", "zero_grad", "backward", "unscale_", "clip_grad_norm_",
                           "scaler.step", "scaler.update", "accumulate", "scheduler.step">>
                    ELSE <<"forward", "zero_grad", "backward",
                           "scaler.step", "scaler.update", "accumulate", "scheduler.step">>
         /\ OpCount("scaler.step") = 1 /\ OpCount("scaler.update") = 1
         /\ OpIndex("scaler.update") = OpIndex("scaler.step") + 1
         /\ OpCount("unscale_") <= 1
         /\ OpCount("unscale_") = 1 =>
              /\ OpIndex("backward") < OpIndex("unscale_")
              /\ OpIndex("unscale_") < OpIndex("clip_grad_norm_")
              /\ OpIndex("clip_grad_norm_") < OpIndex("scaler.step")
         /\ OpCount("scheduler.step") = 1
         /\ OpIndex("scaler.step") < OpIndex("scheduler.step")

\* the optimizer update of a step is made with the rate the optimizer held
\* when the step began, the one the previous step's scheduler.step() wrote;
\* a skipped update uses no rate
C16_Step ==
  /\ IsTrainStep /\ params' # params => update_lr' = lr
  /\ IsTrainStep /\ params' = params => update_lr' = update_lr
  /\ ~IsTrainStep => update_lr' = update_lr /\ lr' = lr /\ ops' = ops

\* C16: every optimization step makes its calls in the order forward and
\* loss, zero_grad, scaled backward, unscale_ then clip_grad_norm_ when the
\* gate is open, scaler.step, scaler.update, metric accumulation,
\* scheduler.step; scaler.update follows scaler.step directly and once;
\* unscale_ is called at most once and before scaler.step; scheduler.step
\* comes after the optimizer update, which is therefore made with the rate
\* written by the scheduler.step of the step before.
C16_StepOrder == [](C16_Order) /\ [][C16_Step]_vars

\* a clipped step whose update ran with the rate the step before had written,
\* after which the scheduler wrote another
C16_Witness ==
  /\ pc = "train"
  /\ counter >= 2
  /\ grad.clipped /\ grad.finite
  /\ OpIndex("unscale_") = 4
  /\ update_lr.phase = "cosine"
  /\ update_lr # lr

\* counts of a pass: 0 <= top1 <= top5 <= samples
OrderedCounts(t) == 0 <= t.top1 /\ t.top1 <= t.top5 /\ t.top5 <= t.samples

\* percentages: 0 <= top1 <= top5 <= 100
OrderedPercentages(top1, top5) ==
  /\ RatLeq(Zero, top1)
  /\ RatLeq(top1, top5)
  /\ RatLeq(top5, <<100, 1>>)

\* C17: in every state the running counts of the training pass and the counts
\* of validate satisfy 0 <= top1 <= top5 <= samples, and every record of
\* train_metrics and test_metrics, as well as the training record of the
\* epoch, satisfies 0 <= top1 <= top5 <= 100.
C17_OrderedCounts ==
  /\ OrderedCounts(running)
  /\ OrderedCounts(totals)
  /\ OrderedPercentages(train_rec.top1, train_rec.top5)
  /\ \A i \in 1 .. Len(train_metrics.top1) :
       OrderedPercentages(train_metrics.top1[i], train_metrics.top5[i])
  /\ \A i \in 1 .. Len(test_metrics.top1) :
       OrderedPercentages(test_metrics.top1[i], test_metrics.top5[i])

\* records whose counts were strictly ordered: 0 < top1 < top5 < samples
C17_Witness ==
  /\ pc = "epoch"
  /\ Len(train_metrics.top1) = 1 /\ Len(test_metrics.top1) = 1
  /\ \/ /\ 0 < running.top1 /\ running.top1 < running.top5
           /\ running.top5 < running.samples
           /\ train_metrics.top1[1] # train_metrics.top5[1]
           /\ train_metrics.top5[1] # <<100, 1>>
     \/ /\ 0 < totals.top1 /\ totals.top1 < totals.top5
           /\ totals.top5 < totals.samples
           /\ test_metrics.top1[1] # test_metrics.top5[1]
           /\ test_metrics.top5[1] # <<100, 1>>

\* the step in which an epoch goes through the else branch
C18_Step ==
  pc = "train" /\ pc' = "epoch" =>
    /\ \A f \in MetricFields : Len(test_metrics[f]) > 0
    /\ epoch > 0
    /\ PrintedTest(Last(printed')) =
         FmtRecord(Last(test_metrics.loss), Last(test_metrics.top1), Last(test_metrics.top5))

\* every line printed so far reports the record of an evaluation that ran
C18_Reported ==
  \A k \in 1 .. Len(printed) :
    /\ Len(test_metrics.top1) >= 1 + (k - 1) \div cfg.interval
    /\ LET j == 1 + (k - 1) \div cfg.interval
       IN  PrintedTest(printed[k]) =
             FmtRecord(test_metrics.loss[j], test_metrics.top1[j], test_metrics.top5[j])

\* C18: in a run that starts at epoch 0, an epoch that takes the else branch
\* always finds test_metrics non-empty, because epoch 0 runs validate and a
\* validate that fails ends the run; the fallback 0.0 is never reported and
\* every printed test record is the record of an evaluation that ran.
C18_SentinelUnreachable == [](C18_Reported) /\ [][C18_Step]_vars

\* an epoch without validation has reported the record of epoch 0, in a run
\* with an interval above 1
C18_Witness ==
  /\ pc = "epoch"
  /\ cfg.interval = 2
  /\ epoch = 2
  /\ Len(test_metrics.top1) = 1
  /\ Len(printed) = 2
  /\ PrintedTest(printed[2]) = PrintedTest(printed[1])
  /\ PrintedTest(printed[2]) # <<0, 0, 0>>

\* what the training pass leaves behind: parameters, gradients, optimizer rate,
\* scheduler counter, scaler, running totals, the epoch's training record
training_state == <<params, grad, lr, update_lr, counter, scaler, running, train_rec,
                    current_lr, ops>>

C19_Step ==
  /\ IsValStep => UNCHANGED <<training_state, train_metrics, test_metrics, printed, epoch>>
  /\ pc = "validate" /\ pc' = "error" =>
       UNCHANGED <<training_state, train_metrics, test_metrics, printed, epoch>>
  /\ ValidateReturns =>
       /\ UNCHANGED training_state
       /\ \A f \in MetricFields :
            /\ ExtendsByOne(test_metrics'[f], test_metrics[f])
            /\ ExtendsByOne(train_metrics'[f], train_metrics[f])
            /\ Last(train_metrics'[f]) = train_rec[f]
  /\ pc = "validate" => IsValStep \/ ValidateReturns \/ pc' = "error"

\* C19: from the call of validate to its return, whatever the number of
\* validation batches, the parameters, the gradients, the optimizer's rate,
\* the scheduler's counter, the scaler, the running totals of the training
\* pass and train_metrics do not change; what the epoch records after the
\* return is the training record computed before the call, appended to
\* train_metrics as in an epoch without validation, and one record appended
\* to test_metrics.
C19_ValidateFrame == [][C19_Step]_vars

\* validate has returned after two batches, following optimization steps of
\* which one was skipped
C19_Witness ==
  /\ pc = "epoch"
  /\ epoch >= 1
  /\ cfg.val_len = 2
  /\ it = 2
  /\ ~training
  /\ params >= 1
  /\ counter > params
  /\ Len(test_metrics.top1) >= 1

C20_Mode ==
  /\ pc = "train" => training
  /\ pc = "validate" => ~training

C20_Step ==
  /\ IsTrainStep => training /\ training'
  /\ IsValStep => ~training /\ ~training'

\* C20: every optimization step runs with the model in training mode and
\* every validation batch with the model in evaluation mode; the evaluation
\* mode validate sets at the end of an epoch is replaced by the training mode
\* before the first step of the next epoch.
C20_ModePerPass == [](C20_Mode) /\ [][C20_Step]_vars

\* an optimization step of the epoch after an evaluation has run
C20_Witness ==
  /\ pc = "train"
  /\ epoch >= 1
  /\ (epoch - 1) % cfg.interval = 0
  /\ Len(test_metrics.top1) >= 1
  /\ it = 1
  /\ training

====
